---- MODULE Spec2Model ----
(***************************************************************************)
(* Model of the cpu crate (src/cpu/src/lib.rs): the Cpu structure and its  *)
(* only operation, the constructor Cpu::new(code).                         *)
(*                                                                         *)
(* A Vec<u8> may be 128 MiB long, so a byte vector is represented by its   *)
(* length, its explicit leading bytes (head) and the value of every byte   *)
(* after the head (fill):                                                  *)
(*     byte i  =  head[i+1]  if i < Len(head),   fill  if Len(head) <= i   *)
(* for 0 <= i < len.  The representation is exact for the vectors it       *)
(* describes; DRAM_SIZE keeps the value the source gives it.               *)
(***************************************************************************)
EXTENDS Integers, Sequences, FiniteSets, TLC

VARIABLES regs, pc, dram, image, outcome

vars == <<regs, pc, dram, image, outcome>>

\* pub const DRAM_SIZE: u64 = 1024 * 1024 * 128;
DRAM_SIZE == 1024 * 1024 * 128

\* number of general registers: regs: [u64; 32]
NumRegs == 32

\* longest explicit prefix of an image
MaxHead == 2

\* byte values used in images
Bytes == {0, 1, 255}

\* lengths of the images longer than their explicit prefix
LongLens == {DRAM_SIZE - 1, DRAM_SIZE, DRAM_SIZE + 1}

RECURSIVE SeqsUpTo(_)
SeqsUpTo(n) ==
    IF n = 0 THEN {<<>>}
    ELSE LET S == SeqsUpTo(n - 1)
         IN  S \cup {Append(s, b) : s \in {t \in S : Len(t) = n - 1}, b \in Bytes}

\* a Vec<u8>
Vec(len, head, fill) == [len |-> len, head |-> head, fill |-> fill]

EmptyVec == Vec(0, <<>>, 0)

VecLen(v) == v.len

\* v[i], defined for 0 <= i < v.len
ByteAt(v, i) == IF i < Len(v.head) THEN v.head[i + 1] ELSE v.fill

\* the images handed to Cpu::new
Images ==
    {Vec(Len(h), h, 0) : h \in SeqsUpTo(MaxHead)}
    \cup {Vec(n, h, f) : n \in LongLens, h \in SeqsUpTo(MaxHead), f \in Bytes}

\* let mut regs: [u64; 32] = [0; 32]; regs[2] = DRAM_SIZE;
NewRegsSpAtOne == [i \in 0..(NumRegs - 1) |-> IF i = 1 THEN DRAM_SIZE ELSE 0]
NewRegs == [i \in 0..(NumRegs - 1) |-> IF i = 2 THEN DRAM_SIZE ELSE 0]

\* no Cpu has been built
Init ==
    /\ regs = [i \in 0..(NumRegs - 1) |-> 0]
    /\ pc = 0
    /\ dram = EmptyVec
    /\ image = EmptyVec
    /\ outcome = "none"

\* Cpu::new(code): returns Self { regs, pc: 0, dram: code }; it has no
\* failure path (the return type is Self, and nothing in it can panic)
New(code) ==
    /\ regs' = NewRegs
    /\ pc' = 0
    /\ dram' = code
    /\ image' = code
    /\ outcome' = "Cpu"

Next == \E code \in Images : New(code)

Spec == Init /\ [][Next]_vars

Constructed == outcome # "none"

TypeOK ==
    /\ DOMAIN regs = 0..(NumRegs - 1)
    /\ \A i \in DOMAIN regs : regs[i] \in Nat
    /\ pc \in Nat
    /\ dram \in Images \cup {EmptyVec}
    /\ outcome \in {"none", "Cpu"}

\* offsets at which memory contents are compared
SampleOffsets ==
    (0..(MaxHead + 1)) \cup {DRAM_SIZE - 2, DRAM_SIZE - 1, DRAM_SIZE}

----
\* C1: immediately after Cpu::new with any image, every general register is
\* 0 except register 2, which holds the memory size DRAM_SIZE, and pc is 0.
C1_NewRegistersAndPc ==
    Constructed =>
        /\ \A i \in 0..(NumRegs - 1) : i # 2 => regs[i] = 0
        /\ regs[2] = DRAM_SIZE
        /\ pc = 0

\* a Cpu built from a non-empty image
C1_Witness ==
    /\ Constructed
    /\ VecLen(image) > 0
    /\ regs[2] = 134217728
    /\ regs[1] = 0

\* C2: for every image accepted at construction the memory byte array has
\* length exactly DRAM_SIZE whatever the image length, bytes
\* [0, len(image)) equal the image and every byte from len(image) on is 0.
C2_MemoryIsSizedAndPadded ==
    Constructed =>
        /\ VecLen(dram) = DRAM_SIZE
        /\ \A i \in SampleOffsets :
              i < VecLen(dram) =>
                 ByteAt(dram, i) = (IF i < VecLen(image) THEN ByteAt(image, i) ELSE 0)

\* C3: construction with an image longer than the memory size fails with
\* ImageTooLarge and builds no engine; with len(image) <= memory size it
\* succeeds.
C3_ImageTooLargeRejected ==
    Constructed =>
        IF VecLen(image) > DRAM_SIZE
        THEN outcome = "ImageTooLarge"
        ELSE outcome = "Cpu"

\* C10: immediately after construction with any image the stack-pointer
\* register equals the actual length of the memory byte array,
\* regs[2] = len(dram), so regs[2] - 8 is in bounds for an 8-byte access.
C10_StackPointerIsTopOfMemory ==
    Constructed =>
        /\ regs[2] = VecLen(dram)
        /\ regs[2] >= 8
        /\ (regs[2] - 8) + 8 <= VecLen(dram)

====
